---- MODULE Spec2Model ----
(***************************************************************************)
(* Model of the Snake simulation engine (class SnakeGame of                *)
(* snake_game/gui.py): reset, spawn_snake, move, replenish_apples and      *)
(* queue_direction, driven by an arbitrary caller, and of the tick timer   *)
(* of its driver (class SnakeApp).                                         *)
(***************************************************************************)
EXTENDS Integers, Sequences, FiniteSets, TLC

\* ---------------------------------------------------------------- bounds
\* SnakeConfig.grid_size of the games the model constructs.
GridSize == 2
\* Largest SnakeConfig.apples the model constructs a game with.
MaxApples == 3
\* Number of move() calls explored after a reset().
MaxMoves == 3
\* Largest grid_size spawn_snake is applied to on its own.
MaxSpawnSize == 20
\* Number of distinct ids the Tk event loop hands out for pending callbacks.
MaxTimerIds == 2

\* ------------------------------------------------------------- constants
MIN_APPLES == 1
MIN_INITIAL_LENGTH == 2

Directions == {"up", "down", "left", "right"}
\* One argument outside the four valid directions stands for all of them.
DirectionArgs == Directions \cup {"none"}

VARIABLES
    config,             \* SnakeConfig: grid_size, apples, initial_length, wrap_walls
    snake,              \* deque of cells, head first
    snake_set,          \* occupancy set used by the self-collision test
    apples,             \* set of apple cells
    free_tiles,         \* set of free cells
    direction,          \* direction applied by the last move
    pending_direction,  \* direction queued for the next move
    running,            \* driver-level flag, cleared by reset
    alive,
    score,
    op,                 \* the call that ran last, with its argument
    ret,                \* return value of the last move()
    growing,            \* move(): the candidate head was an apple
    moves,              \* move() calls since the last reset()
    after_id,           \* SnakeApp.after_id, 0 for None
    timers,             \* ids of the callbacks pending in the Tk event loop
    pc,                 \* SnakeApp: "idle", or "tick" inside a handler about to call tick()
    handler             \* SnakeApp: the handler the event loop ran last, with its path

vars == <<config, snake, snake_set, apples, free_tiles, direction,
          pending_direction, running, alive, score, op, ret, growing,
          moves, after_id, timers, pc, handler>>

engine == <<snake, snake_set, apples, free_tiles, direction,
            pending_direction, running, alive, score>>

driver == <<after_id, timers, pc, handler>>

\* ---------------------------------------------------------------- helpers
Min(a, b) == IF a < b THEN a ELSE b

Range(s) == {s[i] : i \in 1..Len(s)}

AllCells(size) == {<<x, y>> : x \in 0..(size - 1), y \in 0..(size - 1)}

Last(s) == s[Len(s)]
Front(s) == SubSeq(s, 1, Len(s) - 1)

\* The configurations a game is constructed with: initial_length within
\* 1..grid_size, apples within MIN_APPLES..MaxApples, both wall modes.
Configs ==
    [grid_size : {GridSize},
     apples : MIN_APPLES..MaxApples,
     initial_length : 1..GridSize,
     wrap_walls : BOOLEAN]

\* ------------------------------------------------------------ spawn_snake
SpawnPositionsNaive(size, length) ==
    [i \in 1..length |-> <<(size \div 2) - (i - 1), size \div 2>>]

\* The positions list of spawn_snake(length), head first.
SpawnPositions(size, length) ==
    LET center_y == size \div 2
        center_x == size \div 2
        min_x == center_x - (length - 1)
        max_x == center_x
        tail_x == (size - length) \div 2
        head_x == tail_x + length - 1
    IN  IF min_x < 0 \/ max_x >= size
        THEN [i \in 1..length |-> <<head_x - (i - 1), center_y>>]
        ELSE [i \in 1..length |-> <<center_x - (i - 1), center_y>>]

\* ------------------------------------------------------- replenish_apples
\* The loop of replenish_apples: every pair <<apples, free_tiles>> the
\* random draws can end with.
RECURSIVE ReplenishLoop(_, _, _)
ReplenishLoop(ap, fr, target) ==
    IF Cardinality(ap) < target /\ fr # {}
    THEN UNION {ReplenishLoop(ap \cup {pos}, fr \ {pos}, target) : pos \in fr}
    ELSE {<<ap, fr>>}

ReplenishTargetIgnoresConfig(cfg, fr) == Cardinality(fr)

ReplenishTarget(cfg, fr) == Min(cfg.apples, Cardinality(fr))

ReplenishApples(cfg, ap, fr) == ReplenishLoop(ap, fr, ReplenishTarget(cfg, fr))

\* ------------------------------------------------------------ _next_head
NextHead(s, d) ==
    LET head_x == Head(s)[1]
        head_y == Head(s)[2]
    IN  IF d = "up" THEN <<head_x, head_y - 1>>
        ELSE IF d = "down" THEN <<head_x, head_y + 1>>
        ELSE IF d = "left" THEN <<head_x - 1, head_y>>
        ELSE <<head_x + 1, head_y>>

\* ------------------------------------------------------------ _in_bounds
InBoundsOffByOne(size, x, y) == 0 <= x /\ x <= size /\ 0 <= y /\ y <= size

InBounds(size, x, y) == 0 <= x /\ x < size /\ 0 <= y /\ y < size

\* move(): new_x %= size; new_y %= size (Python's non-negative modulo).
WrapNoModulo(size, c) == c

Wrap(size, c) == <<c[1] % size, c[2] % size>>

\* move(): the candidate head before the bounds test, wrapped when
\* wrap_walls is set.
Candidate(cfg, s, d) ==
    IF cfg.wrap_walls THEN Wrap(cfg.grid_size, NextHead(s, d)) ELSE NextHead(s, d)

\* move(): the wall test of the elif branch.
HitsWall(cfg, c) == ~cfg.wrap_walls /\ ~InBounds(cfg.grid_size, c[1], c[2])

\* move(): the self-collision test.
SelfCollisionNoTailException(nh, grow, tail, sset) == nh \in sset

SelfCollision(nh, grow, tail, sset) ==
    nh \in sset /\ ~(~grow /\ nh = tail)

\* ------------------------------------------------------- queue_direction
Opposites ==
    [d \in Directions |->
        CASE d = "up" -> "down"
          [] d = "down" -> "up"
          [] d = "left" -> "right"
          [] d = "right" -> "left"]

\* queue_direction: TRUE when the call returns without assigning.
QueueRejectsNoReversalCheck(new_direction, s, d) ==
    new_direction \notin DOMAIN Opposites

QueueRejectsNoValidityCheck(new_direction, s, d) ==
    /\ new_direction \in DOMAIN Opposites
    /\ Len(s) > 1
    /\ Opposites[new_direction] = d

QueueRejectsAnyLength(new_direction, s, d) ==
    \/ new_direction \notin DOMAIN Opposites
    \/ Opposites[new_direction] = d

QueueRejects(new_direction, s, d) ==
    \/ new_direction \notin DOMAIN Opposites
    \/ (Len(s) > 1 /\ Opposites[new_direction] = d)

\* ------------------------------------------------------------------ reset
\* reset() after the assignments and spawn_snake: the pairs
\* <<apples, free_tiles>> its call of replenish_apples can end with, for
\* every configuration (@@ makes the table explicit, computed once).
ResetApples ==
    [cfg \in Configs |->
        ReplenishApples(cfg, {},
            AllCells(cfg.grid_size)
                \ Range(SpawnPositions(cfg.grid_size, cfg.initial_length)))]
    @@ <<>>

\* reset() of a game with configuration cfg: every field it assigns but
\* running.
ResetCall(cfg) ==
    LET positions == SpawnPositions(cfg.grid_size, cfg.initial_length)
        cells == Range(positions)
    IN  \E r \in ResetApples[cfg] :
            /\ snake' = positions
            /\ snake_set' = cells
            /\ apples' = r[1]
            /\ free_tiles' = r[2]
            /\ direction' = "right"
            /\ pending_direction' = "right"
            /\ alive' = TRUE
            /\ score' = 0
            /\ op' = <<"reset">>
            /\ ret' = TRUE
            /\ growing' = FALSE
            /\ moves' = 0

\* The states reset() can leave the engine in.
Reset ==
    /\ ResetCall(config)
    /\ running' = FALSE
    /\ UNCHANGED <<config, driver>>

Init ==
    /\ config \in Configs
    /\ LET positions == SpawnPositions(config.grid_size, config.initial_length)
           cells == Range(positions)
       IN  \E r \in ResetApples[config] :
               /\ snake = positions
               /\ snake_set = cells
               /\ apples = r[1]
               /\ free_tiles = r[2]
    /\ direction = "right"
    /\ pending_direction = "right"
    /\ running = FALSE
    /\ alive = TRUE
    /\ score = 0
    /\ op = <<"reset">>
    /\ ret = TRUE
    /\ growing = FALSE
    /\ moves = 0
    /\ after_id = 0
    /\ timers = {}
    /\ pc = "idle"
    /\ handler = "init"

\* ------------------------------------------------------------------- move
\* move() called on a dead game: returns False at once.
MoveDeadCallReturnsTrue ==
    /\ moves < MaxMoves
    /\ ~alive
    /\ op' = <<"move">>
    /\ ret' = TRUE
    /\ moves' = moves + 1
    /\ UNCHANGED <<config, snake, snake_set, apples, free_tiles, direction,
                   pending_direction, alive, score, growing>>

MoveDeadCall ==
    /\ moves < MaxMoves
    /\ ~alive
    /\ op' = <<"move">>
    /\ ret' = FALSE
    /\ moves' = moves + 1
    /\ UNCHANGED <<config, snake, snake_set, apples, free_tiles, direction,
                   pending_direction, alive, score, growing>>

MoveDead == MoveDeadCall /\ UNCHANGED <<running, driver>>

\* move() ending in the wall branch: alive = False, return False.
MoveWallCall ==
    /\ moves < MaxMoves
    /\ alive
    /\ HitsWall(config, Candidate(config, snake, pending_direction))
    /\ direction' = pending_direction
    /\ alive' = FALSE
    /\ op' = <<"move">>
    /\ ret' = FALSE
    /\ moves' = moves + 1
    /\ UNCHANGED <<config, snake, snake_set, apples, free_tiles,
                   pending_direction, score, growing>>

MoveWall == MoveWallCall /\ UNCHANGED <<running, driver>>

\* move() ending in the self-collision branch: alive = False, return False.
MoveCollideCall ==
    /\ moves < MaxMoves
    /\ alive
    /\ LET nh == Candidate(config, snake, pending_direction)
           grow == nh \in apples
       IN  /\ ~HitsWall(config, nh)
           /\ SelfCollision(nh, grow, Last(snake), snake_set)
           /\ growing' = grow
    /\ direction' = pending_direction
    /\ alive' = FALSE
    /\ op' = <<"move">>
    /\ ret' = FALSE
    /\ moves' = moves + 1
    /\ UNCHANGED <<config, snake, snake_set, apples, free_tiles,
                   pending_direction, score>>

MoveCollide == MoveCollideCall /\ UNCHANGED <<running, driver>>

\* move(): the commit on a growing move, before replenish_apples.
GrowCommitPopsTail(s, sset, ap, fr, sc, nh) ==
    [snake |-> Front(<<nh>> \o s),
     snake_set |-> sset \cup {nh},
     apples |-> ap \ {nh},
     free_tiles |-> fr \ {nh},
     score |-> sc + 1]

GrowCommitNoScore(s, sset, ap, fr, sc, nh) ==
    [snake |-> <<nh>> \o s,
     snake_set |-> sset \cup {nh},
     apples |-> ap \ {nh},
     free_tiles |-> fr \ {nh},
     score |-> sc]

GrowCommit(s, sset, ap, fr, sc, nh) ==
    [snake |-> <<nh>> \o s,
     snake_set |-> sset \cup {nh},
     apples |-> ap \ {nh},
     free_tiles |-> fr \ {nh},
     score |-> sc + 1]

\* move(): the commit on a non-growing move, before replenish_apples.
SlideCommit(s, sset, ap, fr, sc, nh) ==
    LET old_tail == Last(s)
    IN  [snake |-> Front(<<nh>> \o s),
         snake_set |-> (sset \cup {nh}) \ {old_tail},
         apples |-> ap,
         free_tiles |-> (fr \ {nh}) \cup {old_tail},
         score |-> sc]

\* move() reaching the commit: returns True.
MoveOkCall ==
    /\ moves < MaxMoves
    /\ alive
    /\ LET nh == Candidate(config, snake, pending_direction)
           grow == nh \in apples
           c == IF grow
                THEN GrowCommit(snake, snake_set, apples, free_tiles, score, nh)
                ELSE SlideCommit(snake, snake_set, apples, free_tiles, score, nh)
       IN  /\ ~HitsWall(config, nh)
           /\ ~SelfCollision(nh, grow, Last(snake), snake_set)
           /\ growing' = grow
           /\ snake' = c.snake
           /\ snake_set' = c.snake_set
           /\ score' = c.score
           /\ \E r \in ReplenishApples(config, c.apples, c.free_tiles) :
                  /\ apples' = r[1]
                  /\ free_tiles' = r[2]
    /\ direction' = pending_direction
    /\ op' = <<"move">>
    /\ ret' = TRUE
    /\ moves' = moves + 1
    /\ UNCHANGED <<config, pending_direction, alive>>

MoveOk == MoveOkCall /\ UNCHANGED <<running, driver>>

Move == MoveDead \/ MoveWall \/ MoveCollide \/ MoveOk

\* -------------------------------------------------------- queue_direction
QueueDirectionCall(new_direction) ==
    /\ pending_direction' =
          IF QueueRejects(new_direction, snake, direction)
          THEN pending_direction
          ELSE new_direction
    /\ op' = <<"queue_direction", new_direction>>
    /\ UNCHANGED <<config, snake, snake_set, apples, free_tiles,
                   direction, running, alive, score, ret, growing,
                   moves>>

QueueDirection ==
    \E new_direction \in DirectionArgs :
        QueueDirectionCall(new_direction) /\ UNCHANGED driver

\* ------------------------------------------------------------ spawn_snake
\* The configurations spawn_snake is applied to on its own: every grid_size
\* up to MaxSpawnSize with every initial_length it can hold.
SpawnConfigs ==
    {cfg \in [grid_size : 1..MaxSpawnSize,
              apples : {MIN_APPLES},
              initial_length : 1..MaxSpawnSize,
              wrap_walls : {FALSE}] :
        cfg.initial_length <= cfg.grid_size}

\* reset() after its assignments, about to call spawn_snake.
InitSpawn ==
    /\ config \in SpawnConfigs
    /\ snake = <<>>
    /\ snake_set = {}
    /\ apples = {}
    /\ free_tiles = AllCells(config.grid_size)
    /\ direction = "right"
    /\ pending_direction = "right"
    /\ running = FALSE
    /\ alive = TRUE
    /\ score = 0
    /\ op = <<"reset">>
    /\ ret = TRUE
    /\ growing = FALSE
    /\ moves = 0
    /\ after_id = 0
    /\ timers = {}
    /\ pc = "idle"
    /\ handler = "init"

\* spawn_snake(self.config.initial_length) on the cleared engine.
SpawnSnake ==
    /\ snake = <<>>
    /\ LET positions == SpawnPositions(config.grid_size, config.initial_length)
       IN  /\ snake' = snake \o positions
           /\ snake_set' = snake_set \cup Range(positions)
           /\ free_tiles' = free_tiles \ Range(positions)
    /\ op' = <<"spawn_snake">>
    /\ UNCHANGED <<config, apples, direction, pending_direction, running,
                   alive, score, ret, growing, moves, driver>>

SpecSpawn == InitSpawn /\ [][SpawnSnake]_vars

\* The engine after construction, driven by move() and queue_direction().
Next ==
    \/ MoveDead
    \/ MoveWall
    \/ MoveCollide
    \/ MoveOk
    \/ QueueDirection

Spec == Init /\ [][Next]_vars

\* The same engine with reset() callable in every state.
NextReset ==
    \/ Reset
    \/ MoveDead
    \/ MoveWall
    \/ MoveCollide
    \/ MoveOk
    \/ QueueDirection

SpecReset == Init /\ [][NextReset]_vars

\* ================================================================ SnakeApp
\* The Tk event loop runs one handler at a time to completion; a handler that
\* calls tick() is taken in two steps, pc = "tick" between them, and no
\* other handler runs while pc = "tick".

\* The fields of the engine a new SnakeGame or reset() assigns, but running.
gamevars == <<snake, snake_set, apples, free_tiles, direction,
              pending_direction, alive, score, op, ret, growing, moves>>

\* apply_settings: the limit on apples for a grid and a snake length.
MaxApplesByTiles(size, length) ==
    IF size * size - length > 1 THEN size * size - length ELSE 1

\* apply_settings: the entries pass the range checks and the apples limit
\* (the grid_size entry is always the model's GridSize).
SettingsValid(input) ==
    /\ MIN_APPLES <= input.apples
    /\ MIN_INITIAL_LENGTH <= input.initial_length
    /\ input.initial_length <= input.grid_size
    /\ input.apples <= MaxApplesByTiles(input.grid_size, input.initial_length)

\* What the user can have typed into the settings entries.
SettingsInputs ==
    [grid_size : {GridSize},
     apples : 0..MaxApples,
     initial_length : 1..GridSize,
     wrap_walls : BOOLEAN]

\* The configurations the application can hold.
AppConfigs == {cfg \in Configs : SettingsValid(cfg)}

\* _cancel_loop: after_id and the pending callbacks afterwards.
CancelLoopKeepsTimer(aid, tm) ==
    [after_id |-> 0, timers |-> tm]

CancelLoop(aid, tm) ==
    [after_id |-> 0,
     timers |-> IF aid # 0 THEN tm \ {aid} ELSE tm]

\* root.after: the id of the new callback, one that no pending callback has.
FreshIds(tm) ==
    {id \in 1..MaxTimerIds : id \notin tm /\ \A j \in 1..(id - 1) : j \in tm}

\* SnakeApp after construction: a new game, no callback pending.
InitApp ==
    /\ Init
    /\ config \in AppConfigs

\* start_game up to its call of tick().
StartGame ==
    /\ pc = "idle"
    /\ alive => moves < MaxMoves
    /\ IF ~alive THEN ResetCall(config) ELSE UNCHANGED gamevars
    /\ running' = TRUE
    /\ pc' = "tick"
    /\ handler' = "start_game"
    /\ UNCHANGED <<config, after_id, timers>>

\* toggle_pause: returns on a dead game, pauses a running one (cancelling
\* the callback), resumes a paused one up to its call of tick().
TogglePause ==
    /\ pc = "idle"
    /\ (alive /\ ~running) => moves < MaxMoves
    /\ IF ~alive
       THEN /\ handler' = "toggle_pause:dead"
            /\ UNCHANGED <<running, after_id, timers, pc>>
       ELSE IF ~running
            THEN /\ running' = TRUE
                 /\ pc' = "tick"
                 /\ handler' = "toggle_pause:resume"
                 /\ UNCHANGED <<after_id, timers>>
            ELSE /\ running' = FALSE
                 /\ after_id' = CancelLoop(after_id, timers).after_id
                 /\ timers' = CancelLoop(after_id, timers).timers
                 /\ handler' = "toggle_pause:pause"
                 /\ UNCHANGED pc
    /\ UNCHANGED <<config, gamevars>>

ResetGameKeepsTimer ==
    /\ pc = "idle"
    /\ ResetCall(config)
    /\ running' = FALSE
    /\ handler' = "reset_game"
    /\ UNCHANGED <<config, pc, after_id, timers>>

\* reset_game: cancels the callback and replaces the game by a new one.
ResetGame ==
    /\ pc = "idle"
    /\ after_id' = CancelLoop(after_id, timers).after_id
    /\ timers' = CancelLoop(after_id, timers).timers
    /\ ResetCall(config)
    /\ running' = FALSE
    /\ handler' = "reset_game"
    /\ UNCHANGED <<config, pc>>

\* apply_settings: returns on entries it rejects; otherwise replaces the
\* configuration and the game and cancels the callback.
ApplySettings ==
    /\ pc = "idle"
    /\ \E input \in SettingsInputs :
          IF SettingsValid(input)
          THEN /\ config' = [grid_size |-> input.grid_size,
                              apples |-> input.apples,
                              initial_length |-> input.initial_length,
                              wrap_walls |-> input.wrap_walls]
               /\ ResetCall(config')
               /\ running' = FALSE
               /\ after_id' = CancelLoop(after_id, timers).after_id
               /\ timers' = CancelLoop(after_id, timers).timers
               /\ handler' = "apply_settings:accepted"
               /\ UNCHANGED pc
          ELSE /\ handler' = "apply_settings:rejected"
               /\ UNCHANGED <<config, gamevars, running, after_id, timers, pc>>

\* The event loop runs a pending callback: tick is about to be called.
TimerFires ==
    /\ pc = "idle"
    /\ running => moves < MaxMoves
    /\ \E id \in timers : timers' = timers \ {id}
    /\ pc' = "tick"
    /\ handler' = "timer"
    /\ UNCHANGED <<config, gamevars, running, after_id>>

\* tick(): cancels the callback, returns when not running, calls move(),
\* stops on a failed move and schedules the next callback otherwise.
Tick ==
    /\ pc = "tick"
    /\ LET c == CancelLoop(after_id, timers)
       IN  IF ~running
           THEN /\ after_id' = c.after_id
                /\ timers' = c.timers
                /\ UNCHANGED <<config, gamevars, running>>
           ELSE /\ MoveDeadCall \/ MoveWallCall \/ MoveCollideCall \/ MoveOkCall
                /\ IF ret'
                   THEN /\ \E id \in FreshIds(c.timers) :
                              /\ after_id' = id
                              /\ timers' = c.timers \cup {id}
                        /\ UNCHANGED running
                   ELSE /\ running' = FALSE
                        /\ after_id' = c.after_id
                        /\ timers' = c.timers
    /\ pc' = "idle"
    /\ UNCHANGED handler

\* An arrow or w/a/s/d key: queue_direction with that direction.
KeyPress ==
    /\ pc = "idle"
    /\ \E new_direction \in Directions : QueueDirectionCall(new_direction)
    /\ handler' = "key"
    /\ UNCHANGED <<after_id, timers, pc>>

NextApp ==
    \/ StartGame
    \/ TogglePause
    \/ ResetGame
    \/ ApplySettings
    \/ TimerFires
    \/ Tick
    \/ KeyPress

SpecApp == InitApp /\ [][NextApp]_vars

\* ================================================================ claims
SnakeCells == Range(snake)

\* A move() call on a live game is the step under way.
LiveMoveStep == alive /\ op' = <<"move">> /\ moves' = moves + 1

\* The candidate head the next move() computes, before any wrapping.
RawCandidate == NextHead(snake, pending_direction)

OutOfGrid(c) ==
    \/ c[1] < 0 \/ c[1] > config.grid_size - 1
    \/ c[2] < 0 \/ c[2] > config.grid_size - 1

\* The cell entered on the opposite edge when c lies one step off the grid.
OppositeEdge(c) ==
    LET edge(v) == IF v < 0 THEN config.grid_size - 1
                   ELSE IF v > config.grid_size - 1 THEN 0
                   ELSE v
    IN  <<edge(c[1]), edge(c[2])>>

\* The candidate head the next move() tests against apples and snake.
TestedCandidate ==
    IF config.wrap_walls THEN OppositeEdge(RawCandidate) ELSE RawCandidate

\* C1: in every reachable state the cells of the snake sequence, the apple
\* set and the free-tile set are pairwise disjoint and together are exactly
\* the grid_size x grid_size cells.
C1_Partition ==
    /\ SnakeCells \cap apples = {}
    /\ SnakeCells \cap free_tiles = {}
    /\ apples \cap free_tiles = {}
    /\ SnakeCells \cup apples \cup free_tiles = AllCells(config.grid_size)

\* C2: in every reachable state the positions of the snake sequence are
\* pairwise distinct.
C2_SnakeDistinct ==
    \A i, j \in 1..Len(snake) : i # j => snake[i] # snake[j]

\* C3: a move() on a live game whose candidate head is a cell of the snake
\* sequence is fatal (alive false, returns false) unless that cell is the
\* current tail and is not an apple cell.
C3_SelfCollisionFatal ==
    [][(/\ LiveMoveStep
        /\ TestedCandidate \in SnakeCells
        /\ ~(TestedCandidate = Last(snake) /\ TestedCandidate \notin apples))
       => (~alive' /\ ~ret')]_vars

\* C4: while the snake is longer than 1, pending_direction is never the
\* opposite of direction, and the direction a move() applies is never the
\* opposite of the direction applied before it.
C4_NoReversal ==
    /\ [](Len(snake) > 1 => pending_direction # Opposites[direction])
    /\ [][(LiveMoveStep /\ Len(snake) > 1)
          => direction' # Opposites[direction]]_vars

C4_Witness ==
    /\ op = <<"move">>
    /\ ret
    /\ moves >= 2
    /\ Len(snake) > 1
    /\ direction \in {"up", "down"}

\* C5: queue_direction(d) with d the opposite of the current direction
\* leaves pending_direction unchanged when the snake is longer than 1 and
\* sets pending_direction to d when the snake has length 1.
C5_ReversalRejected ==
    [][\A d \in Directions :
          (op' = <<"queue_direction", d>> /\ direction = Opposites[d])
          => IF Len(snake) > 1
             THEN pending_direction' = pending_direction
             ELSE pending_direction' = d]_vars

C5_Witness ==
    /\ Len(op) = 2
    /\ op[2] \in Directions
    /\ direction = Opposites[op[2]]
    /\ Len(snake) > 1
    /\ pending_direction # op[2]

\* C6: with wrap_walls off, a move() on a live game whose candidate head has
\* a coordinate outside [0, grid_size) sets alive to false and returns false.
C6_WallFatal ==
    [][(LiveMoveStep /\ ~config.wrap_walls /\ OutOfGrid(RawCandidate))
       => (~alive' /\ ~ret')]_vars

C6_Witness ==
    /\ op = <<"move">>
    /\ ~config.wrap_walls
    /\ ~alive
    /\ ~ret
    /\ OutOfGrid(NextHead(snake, direction))

\* C7 as claimed: with wrap_walls on, a move() on a live game whose
\* un-wrapped candidate head is outside the grid always succeeds with the
\* head on the opposite edge.
C7_WrapAlwaysSucceeds ==
    [][(LiveMoveStep /\ config.wrap_walls /\ OutOfGrid(RawCandidate))
       => (alive' /\ ret' /\ snake'[1] = OppositeEdge(RawCandidate))]_vars

\* C7 amended: with wrap_walls on, a move() on a live game whose un-wrapped
\* candidate head is outside the grid never dies of the wall: the candidate
\* is taken to the opposite edge, and the move succeeds with the head there
\* unless that cell is in snake_set and is not the tail on a non-growing
\* move, in which case the move is fatal.
C7_WrapThenCollisionRule ==
    [][(LiveMoveStep /\ config.wrap_walls /\ OutOfGrid(RawCandidate))
       => LET w == OppositeEdge(RawCandidate)
          IN  IF w \in snake_set /\ ~(w = Last(snake) /\ w \notin apples)
              THEN ~alive' /\ ~ret' /\ snake' = snake
              ELSE alive' /\ ret' /\ snake'[1] = w]_vars

C7_Witness ==
    /\ op = <<"move">>
    /\ config.wrap_walls
    /\ alive
    /\ ret
    /\ Len(snake) > 1
    /\ OutOfGrid(NextHead(Tail(snake), direction))
    /\ snake[1] = OppositeEdge(NextHead(Tail(snake), direction))

\* C8: a successful move() whose new head was an apple cell lengthens the
\* snake by exactly 1, adds exactly 1 to the score, leaves the consumed cell
\* out of the apple set, keeps the tail cell in the snake and adds no cell
\* to the free-tile set.
C8_GrowingMove ==
    [][(LiveMoveStep /\ ret' /\ snake'[1] \in apples)
       => /\ Len(snake') = Len(snake) + 1
          /\ score' = score + 1
          /\ snake'[1] \notin apples'
          /\ Last(snake') = Last(snake)
          /\ free_tiles' \subseteq free_tiles]_vars

C8_Witness ==
    /\ op = <<"move">>
    /\ ret
    /\ growing
    /\ score >= 1
    /\ Len(snake) = config.initial_length + score

\* C9: a successful move() whose new head was not an apple cell keeps the
\* length and the score, makes the sequence the new head followed by the old
\* sequence without its last element, and leaves the old tail cell in the
\* free-tile set.
C9_SlidingMove ==
    [][(LiveMoveStep /\ ret' /\ snake'[1] \notin apples)
       => /\ Len(snake') = Len(snake)
          /\ snake' = <<snake'[1]>> \o Front(snake)
          /\ score' = score
          /\ Last(snake) \in free_tiles']_vars

\* C10: a move() on a live game whose candidate head is the current tail
\* cell and not an apple is legal: alive stays true, it returns true and the
\* head is at the old tail position afterwards.
C10_TailStepLegal ==
    [][(/\ LiveMoveStep
        /\ ~(~config.wrap_walls /\ OutOfGrid(RawCandidate))
        /\ TestedCandidate = Last(snake)
        /\ TestedCandidate \notin apples)
       => (alive' /\ ret' /\ snake'[1] = Last(snake))]_vars

C10_Witness ==
    /\ op = <<"move">>
    /\ ret
    /\ ~growing
    /\ Len(snake) > 1
    /\ snake[1] \notin snake_set

\* C11: once alive is false, every move() returns false and leaves snake,
\* apples, free tiles, score, direction and alive unchanged, no move() or
\* queue_direction() makes alive true again, and reset() does.
C11_GameOverTerminal ==
    /\ [][~alive =>
            /\ ~alive'
            /\ (op' = <<"move">> /\ moves' = moves + 1)
               => /\ ~ret'
                  /\ UNCHANGED <<snake, apples, free_tiles, score,
                                 direction, alive>>]_vars
    /\ [](~alive => (ENABLED (Reset /\ alive') /\ ~ENABLED (Reset /\ ~alive')))

C11_Witness ==
    /\ ~alive
    /\ op = <<"move">>
    /\ ~ret
    /\ moves >= 2
    /\ pending_direction # direction

\* C12: for every grid_size and initial_length with 1 <= initial_length <=
\* grid_size, spawn_snake places exactly initial_length distinct in-bounds
\* cells in a contiguous horizontal line in row grid_size div 2, head
\* rightmost and body extending left, with the head at x = grid_size div 2
\* when that line fits and the tail at x = (grid_size - initial_length) div 2
\* otherwise.
C12_SpawnLine ==
    op = <<"spawn_snake">> =>
        LET size == config.grid_size
            length == config.initial_length
        IN  /\ Len(snake) = length
            /\ Cardinality(SnakeCells) = length
            /\ \A i \in 1..length :
                  /\ 0 <= snake[i][1] /\ snake[i][1] <= size - 1
                  /\ snake[i][2] = size \div 2
            /\ \A i \in 1..(length - 1) : snake[i + 1][1] = snake[i][1] - 1
            /\ IF (size \div 2) - (length - 1) >= 0
               THEN snake[1][1] = size \div 2
               ELSE snake[length][1] = (size - length) \div 2
            /\ (size = 20 /\ length = 3)
               => snake = <<<<10, 10>>, <<9, 10>>, <<8, 10>>>>
            /\ (size = 3 /\ length = 3)
               => snake = <<<<2, 1>>, <<1, 1>>, <<0, 1>>>>

C12_Witness ==
    /\ op = <<"spawn_snake">>
    /\ config.grid_size = 3
    /\ config.initial_length = 3
    /\ snake[1] = <<2, 1>>
    /\ snake[3] = <<0, 1>>

\* C13: after reset() called from any state, GameOver included, direction =
\* pending_direction = "right", running is false, alive is true, score is 0,
\* the snake has exactly initial_length cells, and the apple set holds
\* exactly min(configured apples, grid_size^2 - initial_length) cells, all
\* disjoint from the snake.
C13_PostReset ==
    /\ direction = "right"
    /\ pending_direction = "right"
    /\ ~running
    /\ alive
    /\ score = 0
    /\ Len(snake) = config.initial_length
    /\ Cardinality(SnakeCells) = config.initial_length
    /\ LET room == config.grid_size * config.grid_size - config.initial_length
       IN  Cardinality(apples) = IF config.apples <= room THEN config.apples
                                                          ELSE room
    /\ apples \cap SnakeCells = {}

C13_AfterReset ==
    /\ op = <<"reset">> => C13_PostReset
    /\ ENABLED Reset
    /\ ~ENABLED (Reset /\ ~C13_PostReset')

C13_Witness ==
    /\ ~alive
    /\ score > 0
    /\ config.apples = 3
    /\ ENABLED (Reset /\ C13_PostReset' /\ Cardinality(apples') = 2)

\* C14: in every state reachable from reset() by move() and
\* queue_direction() calls, no apple cell is a cell of the snake sequence.
C14_NoAppleOnSnake ==
    apples \cap SnakeCells = {}

\* C15: after reset() and after every successful move() the apple count is
\* min(configured apples, |apples| + |free tiles|): never above the
\* configured count, and below it only when no free tile remains.
C15_ApplesRestored ==
    (op = <<"reset">> \/ (op = <<"move">> /\ ret))
        => Cardinality(apples) =
               IF config.apples <= Cardinality(apples) + Cardinality(free_tiles)
               THEN config.apples
               ELSE Cardinality(apples) + Cardinality(free_tiles)

\* C16: queue_direction(d) leaves direction, snake, apples, free tiles,
\* score, alive and running unchanged for every argument, and leaves
\* pending_direction unchanged too when d is not one of up/down/left/right.
C16_QueueDirectionFrame ==
    [][\A d \in DirectionArgs :
          op' = <<"queue_direction", d>>
          => /\ UNCHANGED <<direction, snake, apples, free_tiles, score,
                            alive, running>>
             /\ d \notin {"up", "down", "left", "right"}
                => pending_direction' = pending_direction]_vars

C16_Witness ==
    /\ op = <<"queue_direction", "none">>
    /\ pending_direction # direction
    /\ Len(snake) > 1
    /\ moves >= 1

\* C19: in every state reachable from reset() by move() and
\* queue_direction() calls, the occupancy set snake_set equals exactly the
\* set of cells in the snake sequence.
C19_OccupancyIsSnake ==
    snake_set = SnakeCells

\* C20: in every state reachable from reset() by move() and
\* queue_direction() calls, score = (snake length) - initial_length, and no
\* step makes the snake shorter or the score smaller.
C20_ScoreIsGrowth ==
    /\ [](score = Len(snake) - config.initial_length)
    /\ [][Len(snake') >= Len(snake) /\ score' >= score]_vars

C20_Witness ==
    /\ score = 2
    /\ Len(snake) = config.initial_length + 2
    /\ op = <<"move">>
    /\ ~growing

\* C17: in the driver, under any interleaving of start_game, toggle_pause,
\* reset_game, apply_settings, key presses and timer firings, at most one
\* tick callback is pending at any time.
C17_OnePendingTimer ==
    Cardinality(timers) <= 1

\* start_game pressed while a callback is pending, before tick() cancels it.
C17_Witness ==
    /\ handler = "start_game"
    /\ pc = "tick"
    /\ Cardinality(timers) = 1
    /\ after_id \in timers
    /\ moves >= 1

\* A call of move() is the step under way.
MoveInvoked == op' = <<"move">> /\ moves' = moves + 1

\* The game-over tick: tick() whose move() returns false.
GameOverTick == pc = "tick" /\ MoveInvoked /\ ~ret'

\* The driver is between handlers with the game not running.
StoppedIdle == pc = "idle" /\ ~running

\* C18 as stated: move() is invoked only while running and alive are both
\* true; after a pause, a game-over tick, reset_game or any apply_settings
\* no timer is pending, and no move() is invoked until start_game or an
\* un-pausing toggle_pause.
C18_StoppedAfterAnyApplySettings ==
    /\ [][MoveInvoked => (running /\ alive)]_vars
    /\ [][(\/ GameOverTick
           \/ /\ pc = "idle"
              /\ handler' \in {"toggle_pause:pause", "reset_game",
                               "apply_settings:accepted",
                               "apply_settings:rejected"})
          => (StoppedIdle' /\ timers' = {})]_vars
    /\ [](StoppedIdle => timers = {})
    /\ [][StoppedIdle
          => /\ ~MoveInvoked
             /\ running' => handler' \in {"start_game",
                                          "toggle_pause:resume"}]_vars

\* C18, amended: the same with apply_settings restricted to the calls that
\* accept the entries; a call that rejects them returns before it cancels
\* anything.
C18_StoppedAfterAcceptedSettings ==
    /\ [][MoveInvoked => (running /\ alive)]_vars
    /\ [][(\/ GameOverTick
           \/ /\ pc = "idle"
              /\ handler' \in {"toggle_pause:pause", "reset_game",
                               "apply_settings:accepted"})
          => (StoppedIdle' /\ timers' = {})]_vars
    /\ [](StoppedIdle => timers = {})
    /\ [][StoppedIdle
          => /\ ~MoveInvoked
             /\ running' => handler' \in {"start_game",
                                          "toggle_pause:resume"}]_vars

\* A game-over tick happened, then keys were pressed on the stopped game.
C18_Witness ==
    /\ StoppedIdle
    /\ ~alive
    /\ ~ret
    /\ op[1] = "queue_direction"
    /\ handler = "key"
    /\ timers = {}
    /\ moves >= 2

====
